---- MODULE Spec2Model ----
(***************************************************************************)
(* Model of hooks/statusline.py (jacques): the cache utilities, the git,   *)
(* session-title and auto-compact resolvers, and main().                   *)
(*                                                                         *)
(* Strings are sequences of characters; a character is a one-token TLA+    *)
(* string ("a", "/", ...), with LF, CR and SP standing for the line feed,  *)
(* carriage return and space characters.  Python's None is the option      *)
(* record None; Some(v) wraps a value that is present.                     *)
(*                                                                         *)
(* Each function of the script is an operator of the same name whose value *)
(* holds what the call returns and what it did (the cache store            *)
(* afterwards, subprocesses started, cache reads and writes).  An action   *)
(* is one call; it binds that value with \E c \in {call} and records it in *)
(* last.  Cache files are readable and writable; the clock is read in      *)
(* whole seconds.  Invocations run one after the other, except in SpecRace *)
(* where write_cache is taken apart into the opening of the file and the   *)
(* write; writers holds the invocations that are inside write_cache.       *)
(***************************************************************************)
EXTENDS Integers, Sequences, FiniteSets, TLC

VARIABLES now, ticks, files, repo, helper, index, transcript, config,
          override, last, prevGit, writers

vars == <<now, ticks, files, repo, helper, index, transcript, config,
          override, last, prevGit, writers>>

(***************************************************************************)
(* Bounds of the model.                                                    *)
(***************************************************************************)
\* the clock advances at most this many times in one behaviour
MaxTicks == 3

\* ttl of the git, title and settings namespaces
GitTTL == 60
TitleTTL == 300
SettingsTTL == 300

(***************************************************************************)
(* Strings.                                                                *)
(***************************************************************************)
LF == "LF"
CR == "CR"
SP == "SP"

None == [some |-> FALSE, v |-> <<>>]
Some(x) == [some |-> TRUE, v |-> x]

\* n copies of character c
Rep(c, n) == [i \in 1..n |-> c]

\* s[:n]
Take(s, n) == SubSeq(s, 1, IF n < Len(s) THEN n ELSE Len(s))

\* str.replace(a, b) for single characters a, b
Replace(s, a, b) == [i \in 1..Len(s) |-> IF s[i] = a THEN b ELSE s[i]]

IsSpace(c) == c \in {SP, LF, CR}

RECURSIVE LStrip(_)
LStrip(s) == IF s # <<>> /\ IsSpace(Head(s)) THEN LStrip(Tail(s)) ELSE s

RECURSIVE RStrip(_)
RStrip(s) ==
  IF s # <<>> /\ IsSpace(s[Len(s)]) THEN RStrip(SubSeq(s, 1, Len(s) - 1)) ELSE s

\* str.strip()
Strip(s) == RStrip(LStrip(s))

\* str.split(sep) for a single character sep: the fields, in order
RECURSIVE SplitAcc(_, _, _)
SplitAcc(s, sep, cur) ==
  IF s = <<>> THEN <<cur>>
  ELSE IF Head(s) = sep THEN <<cur>> \o SplitAcc(Tail(s), sep, <<>>)
  ELSE SplitAcc(Tail(s), sep, Append(cur, Head(s)))

Split(s, sep) == SplitAcc(s, sep, <<>>)

\* what a text-mode read (newline=None) returns for the bytes written:
\* CR LF and a lone CR both become LF
RECURSIVE UniversalNewlines(_)
UniversalNewlines(s) ==
  IF s = <<>> THEN <<>>
  ELSE IF Head(s) = CR
    THEN IF Len(s) >= 2 /\ s[2] = LF
           THEN <<LF>> \o UniversalNewlines(Tail(Tail(s)))
           ELSE <<LF>> \o UniversalNewlines(Tail(s))
  ELSE <<Head(s)>> \o UniversalNewlines(Tail(s))

(***************************************************************************)
(* Cache utilities.  files maps the path of every cache file that exists   *)
(* to its bytes and its modification time.                                 *)
(***************************************************************************)
TMPDIR == <<"/", "t", "m", "p">>

CacheTail == <<".", "c", "a", "c", "h", "e">>

SafeChar(c) == IF c \in {"/", "\\", ":"} THEN "-" ELSE c

\* cache_path(prefix, key)
cache_path(prefix, key) ==
  TMPDIR \o <<"/">> \o <<"j", "a", "c", "q", "u", "e", "s", "-">> \o prefix
    \o <<"-">> \o [i \in 1..Len(key) |-> SafeChar(key[i])] \o CacheTail

\* the freshness test of read_cache: age > max_age_seconds means stale
IsStaleOffByOne(age, max_age_seconds) == age >= max_age_seconds
IsStale(age, max_age_seconds) == age > max_age_seconds

\* the text read_cache gets from the file's bytes (open(path, 'r'))
ReadText(bytes) == UniversalNewlines(bytes)

\* read_cache(path, max_age_seconds) at time t on store fs
read_cache(fs, path, max_age_seconds, t) ==
  IF path \notin DOMAIN fs THEN None
  ELSE IF IsStale(t - fs[path].mtime, max_age_seconds) THEN None
  ELSE Some(ReadText(fs[path].content))

\* write_cache(path, content) at time t on store fs: the store afterwards
write_cache(fs, path, content, t) ==
  [p \in DOMAIN fs \cup {path} |->
     IF p = path THEN [content |-> content, mtime |-> t] ELSE fs[p]]

(***************************************************************************)
(* The clock.  time.time() is read in whole seconds; it advances by one    *)
(* second or by a jump that ends one second short of a ttl.                *)
(***************************************************************************)
Tick(d) ==
  /\ ticks < MaxTicks
  /\ ticks' = ticks + 1
  /\ now' = now + d
  /\ UNCHANGED <<files, repo, helper, index, transcript, config, override,
                 last, prevGit, writers>>

(***************************************************************************)
(* SpecCache: the cache utilities called directly.                         *)
(***************************************************************************)
CacheNamespaces == {<<"g", "i", "t">>, <<"t", "i", "t", "l", "e">>}
CacheKeys == {<<"/", "a">>}
CacheContents == {<<"v">>, <<"a", CR, "b">>, <<"m", LF, LF, "/", "r">>}
CacheTTLs == {0, 1, GitTTL}

EnvUnused ==
  /\ repo = <<>>
  /\ helper = FALSE
  /\ index = <<>>
  /\ transcript = <<>>
  /\ config = "absent"
  /\ override = None
  /\ prevGit = <<>>
  /\ writers = <<>>

InitCache ==
  /\ now = 0
  /\ ticks = 0
  /\ files = <<>>
  /\ last = [op |-> "none"]
  /\ EnvUnused

\* a direct call write_cache(cache_path(ns, k), v)
WriteCache(ns, k, v) ==
  /\ files' = write_cache(files, cache_path(ns, k), v, now)
  /\ last' = [op |-> "write_cache", path |-> cache_path(ns, k),
              content |-> v, at |-> now]
  /\ UNCHANGED <<now, ticks, repo, helper, index, transcript, config,
                 override, prevGit, writers>>

\* a direct call read_cache(cache_path(ns, k), ttl); `follows` records the
\* write_cache call this read comes right after, if any
ReadCache(ns, k, ttl) ==
  LET path == cache_path(ns, k) IN
  /\ last' = [op |-> "read_cache", path |-> path, ttl |-> ttl, at |-> now,
              result |-> read_cache(files, path, ttl, now),
              before |-> IF path \in DOMAIN files THEN Some(files[path])
                         ELSE None,
              follows |-> IF last.op = "write_cache" /\ last.path = path
                            THEN Some([content |-> last.content,
                                       elapsed |-> now - last.at])
                            ELSE None]
  /\ UNCHANGED <<now, ticks, files, repo, helper, index, transcript, config,
                 override, prevGit, writers>>

NextCache ==
  \/ \E d \in {1, GitTTL - 1} : Tick(d)
  \/ \E ns \in CacheNamespaces, k \in CacheKeys, v \in CacheContents :
       WriteCache(ns, k, v)
  \/ \E ns \in CacheNamespaces, k \in CacheKeys, ttl \in CacheTTLs :
       ReadCache(ns, k, ttl)

SpecCache == InitCache /\ [][NextCache]_vars

(***************************************************************************)
(* Paths (os.path on a POSIX file system without symbolic links).          *)
(***************************************************************************)
RECURSIVE JoinFields(_, _)
JoinFields(fields, sep) ==
  IF fields = <<>> THEN <<>>
  ELSE IF Len(fields) = 1 THEN fields[1]
  ELSE fields[1] \o <<sep>> \o JoinFields(Tail(fields), sep)

\* index of the last "/" of p, 0 when there is none
RECURSIVE LastSlash(_, _)
LastSlash(p, i) ==
  IF i = 0 THEN 0 ELSE IF p[i] = "/" THEN i ELSE LastSlash(p, i - 1)

\* os.path.basename(p)
basename(p) == SubSeq(p, LastSlash(p, Len(p)) + 1, Len(p))

\* os.path.dirname(p)
dirname(p) ==
  LET i == LastSlash(p, Len(p)) IN
  IF i = 0 THEN <<>> ELSE IF i = 1 THEN <<"/">> ELSE SubSeq(p, 1, i - 1)

\* os.path.join(a, b)
pathjoin(a, b) ==
  IF b # <<>> /\ Head(b) = "/" THEN b
  ELSE IF a = <<>> \/ a[Len(a)] = "/" THEN a \o b
  ELSE a \o <<"/">> \o b

\* the components of an absolute path with "", "." and ".." resolved
RECURSIVE Resolve(_, _)
Resolve(fields, stack) ==
  IF fields = <<>> THEN stack
  ELSE IF Head(fields) \in {<<>>, <<".">>} THEN Resolve(Tail(fields), stack)
  ELSE IF Head(fields) = <<".", ".">>
    THEN Resolve(Tail(fields),
                 IF stack = <<>> THEN stack
                 ELSE SubSeq(stack, 1, Len(stack) - 1))
  ELSE Resolve(Tail(fields), Append(stack, Head(fields)))

\* os.path.realpath(p) for an absolute path p
realpath(p) == <<"/">> \o JoinFields(Resolve(Split(p, "/"), <<>>), "/")

(***************************************************************************)
(* Git detection.  repo[d] is what directory d is on disk: "missing" (no   *)
(* such directory), "plain" (a directory outside any repository), "main"   *)
(* (a repository checked out in place), "linked" (a linked worktree of the *)
(* repository /r), "sub" (a subdirectory of the repository above it).      *)
(* helper says whether git-detect.sh is a usable executable on a platform  *)
(* other than Windows.  A call is one step: the time a subprocess takes is *)
(* not modelled.                                                           *)
(***************************************************************************)
RepoStates == {"missing", "plain", "main", "linked", "sub"}

DotGit == <<".", "g", "i", "t">>

\* [rc, stdout] of git -C d rev-parse --abbrev-ref HEAD --git-common-dir
GitRevParse(st) ==
  CASE st = "main" -> [rc |-> 0, stdout |-> <<"m">> \o <<LF>> \o DotGit \o <<LF>>]
    [] st = "linked" ->
         [rc |-> 0,
          stdout |-> <<"w">> \o <<LF>> \o <<"/", "r", "/">> \o DotGit \o <<LF>>]
    [] st = "sub" ->
         [rc |-> 0,
          stdout |-> <<"s">> \o <<LF>> \o <<".", ".", "/">> \o DotGit \o <<LF>>]
    [] OTHER -> [rc |-> 128, stdout |-> <<>>]

\* [rc, stdout] of git-detect.sh d: branch, worktree and root, one per line
GitDetectSh(d, st) ==
  CASE st = "main" ->
         [rc |-> 0, stdout |-> <<"m">> \o <<LF, LF>> \o d \o <<LF>>]
    [] st = "linked" ->
         [rc |-> 0,
          stdout |-> <<"w">> \o <<LF>> \o basename(d) \o <<LF>>
                       \o <<"/", "r">> \o <<LF>>]
    [] st = "sub" ->
         [rc |-> 0, stdout |-> <<"s">> \o <<LF, LF>> \o dirname(d) \o <<LF>>]
    [] OTHER -> [rc |-> 1, stdout |-> <<>>]

EmptyGit == [git_branch |-> <<>>, git_worktree |-> <<>>, git_repo_root |-> <<>>]

\* lines[i] if len(lines) > i else ''  (i counted from 1 here)
LineOr(lines, i) == IF Len(lines) >= i THEN lines[i] ELSE <<>>

\* the three fields of a cached entry or of the helper's output
ThreeLinesShifted(text) ==
  LET lines == Split(text, LF) IN
  [git_branch |-> LineOr(lines, 2), git_worktree |-> LineOr(lines, 3),
   git_repo_root |-> LineOr(lines, 4)]
ThreeLines(text) ==
  LET lines == Split(text, LF) IN
  [git_branch |-> LineOr(lines, 1), git_worktree |-> LineOr(lines, 2),
   git_repo_root |-> LineOr(lines, 3)]

\* f"{branch}\n{worktree}\n{root}"
GitEntry(r) ==
  r.git_branch \o <<LF>> \o r.git_worktree \o <<LF>> \o r.git_repo_root

\* the inline fallback: the result for the output of rev-parse
InlineResult(d, proc) ==
  IF proc.rc # 0 THEN EmptyGit
  ELSE LET lines == Split(Strip(proc.stdout), LF) IN
       IF Len(lines) < 2 THEN EmptyGit
       ELSE LET common == lines[2] IN
            IF common = DotGit
              THEN [git_branch |-> lines[1], git_worktree |-> <<>>,
                    git_repo_root |-> realpath(d)]
            ELSE IF common # <<>>
              THEN [git_branch |-> lines[1], git_worktree |-> basename(d),
                    git_repo_root |-> dirname(realpath(pathjoin(d, common)))]
            ELSE [git_branch |-> lines[1], git_worktree |-> <<>>,
                  git_repo_root |-> <<>>]

\* the final write_cache of detect_git_info (line 129)
GitWriteBackOnlyKnown(fs, cp, r, t) ==
  IF r = EmptyGit THEN fs ELSE write_cache(fs, cp, GitEntry(r), t)
GitWriteBack(fs, cp, r, t) == write_cache(fs, cp, GitEntry(r), t)

\* detect_git_info(d) at time t on store fs, in a directory whose state is
\* st.  hout and iout say how the two subprocesses end: "exit" (the process
\* exits with its return code) or "raise" (subprocess.run raises: timeout,
\* missing binary).  The value is the result, the store afterwards and the
\* number of subprocesses started, cache reads and cache writes.
detect_git_info(fs, d, st, hlp, hout, iout, t) ==
  LET cp == cache_path(<<"g", "i", "t">>, d)
      cached == read_cache(fs, cp, GitTTL, t)
      hproc == GitDetectSh(d, st)
      helped == hlp /\ hout = "exit" /\ hproc.rc = 0
      nsub == IF hlp THEN 2 ELSE 1
      r == IF iout = "exit" THEN InlineResult(d, GitRevParse(st))
           ELSE EmptyGit
  IN
  IF d = <<>> \/ st = "missing"
    THEN [result |-> EmptyGit, files |-> fs, sub |-> 0, cread |-> 0,
          cwrite |-> 0]
  ELSE IF cached.some
    THEN [result |-> ThreeLines(cached.v), files |-> fs, sub |-> 0,
          cread |-> 1, cwrite |-> 0]
  ELSE IF helped
    THEN [result |-> ThreeLines(hproc.stdout),
          files |-> write_cache(fs, cp, GitEntry(ThreeLines(hproc.stdout)), t),
          sub |-> 1, cread |-> 1, cwrite |-> 1]
  ELSE [result |-> r, files |-> GitWriteBack(fs, cp, r, t), sub |-> nsub,
        cread |-> 1, cwrite |-> 1]

(***************************************************************************)
(* SpecGit: calls of detect_git_info on a directory whose repository       *)
(* changes under it.                                                       *)
(***************************************************************************)
GitDirs == {<<"/", "p", "/", "a">>}

InitGit ==
  /\ now = 0
  /\ ticks = 0
  /\ files = <<>>
  /\ repo \in [GitDirs -> RepoStates]
  /\ helper \in BOOLEAN
  /\ last = [op |-> "none"]
  /\ prevGit = [op |-> "none"]
  /\ index = <<>>
  /\ transcript = <<>>
  /\ config = "absent"
  /\ override = None
  /\ writers = <<>>

\* the repository in d changes: a checkout, a removal, a re-creation
ChangeRepo(d, st) ==
  /\ repo[d] # st
  /\ repo' = [repo EXCEPT ![d] = st]
  /\ UNCHANGED <<now, ticks, files, helper, index, transcript, config,
                 override, last, prevGit, writers>>

\* git-detect.sh is installed or removed
SetHelper(b) ==
  /\ helper # b
  /\ helper' = b
  /\ UNCHANGED <<now, ticks, files, repo, index, transcript, config,
                 override, last, prevGit, writers>>

\* one call detect_git_info(d); entryAt is the written-at time of d's cache
\* entry after the call, fresh says that the entry was there and no older
\* than GitTTL when the call was made
DetectGit(d, hout, iout) ==
  \E c \in {detect_git_info(files, d, repo[d], helper, hout, iout, now)},
     cp \in {cache_path(<<"g", "i", "t">>, d)} :
  /\ files' = c.files
  /\ last' = [op |-> "detect_git_info", dir |-> d, at |-> now,
              exists |-> repo[d] # "missing", result |-> c.result,
              sub |-> c.sub, cread |-> c.cread, cwrite |-> c.cwrite,
              entryAt |-> IF cp \in DOMAIN c.files THEN Some(c.files[cp].mtime)
                          ELSE None,
              fresh |-> cp \in DOMAIN files /\ now - files[cp].mtime <= GitTTL]
  /\ prevGit' = IF last.op = "detect_git_info"
                  THEN [op |-> last.op, dir |-> last.dir, at |-> last.at,
                        exists |-> last.exists, result |-> last.result,
                        entryAt |-> last.entryAt, fresh |-> last.fresh]
                  ELSE [op |-> "none"]
  /\ UNCHANGED <<now, ticks, repo, helper, index, transcript, config,
                 override, writers>>

NextGit ==
  \/ \E d \in {1, GitTTL - 1} : Tick(d)
  \/ \E d \in GitDirs, st \in RepoStates : ChangeRepo(d, st)
  \/ \E b \in BOOLEAN : SetHelper(b)
  \/ \E d \in GitDirs, hout \in {"exit", "raise"}, iout \in {"exit", "raise"} :
       DetectGit(d, hout, iout)

SpecGit == InitGit /\ [][NextGit]_vars

(***************************************************************************)
(* SpecAlias: calls of detect_git_info on two directories, /p/a and /p-a,  *)
(* neither of which changes.  git-detect.sh is not installed and git       *)
(* answers.                                                                *)
(***************************************************************************)
AliasDirs == {<<"/", "p", "/", "a">>, <<"/", "p", "-", "a">>}

InitAlias ==
  /\ now = 0
  /\ ticks = 0
  /\ files = <<>>
  /\ repo \in [AliasDirs -> {"plain", "main", "linked"}]
  /\ helper = FALSE
  /\ last = [op |-> "none"]
  /\ prevGit = [op |-> "none"]
  /\ index = <<>>
  /\ transcript = <<>>
  /\ config = "absent"
  /\ override = None
  /\ writers = <<>>

NextAlias ==
  \/ \E d \in {1, GitTTL} : Tick(d)
  \/ \E d \in AliasDirs : DetectGit(d, "exit", "exit")

SpecAlias == InitAlias /\ [][NextAlias]_vars

(***************************************************************************)
(* Session title.  index is the sessions-index.json beside the transcript: *)
(* absent, not parsable ("garbage"), or an object whose entries are        *)
(* objects with a sessionId and a summary ('' when the key is missing).    *)
(* transcript is the transcript file: absent, or its lines.  A line is     *)
(* described by what the code looks at: whether it contains the text       *)
(* "type":"summary" or "type":"user", whether json.loads accepts it ("bad" *)
(* when not; a line it accepts is an object, as the host writes them), its *)
(* summary field, and its message: absent, a dict whose content is a       *)
(* string ("str") or a list of blocks ("blocks").                          *)
(***************************************************************************)
Ellipsis == <<".", ".", ".">>

\* content.strip().replace('\n', ' ')[:50] + '...'
TruncateTitleAt53(content) ==
  Take(Replace(Strip(content), LF, SP), 53) \o Ellipsis
TruncateTitle(content) ==
  Take(Replace(Strip(content), LF, SP), 50) \o Ellipsis

\* source 1: the summary of the first entry of the index for the session
RECURSIVE IndexSummary(_, _)
IndexSummary(entries, sid) ==
  IF entries = <<>> THEN <<>>
  ELSE IF Head(entries).sessionId = sid THEN Head(entries).summary
  ELSE IndexSummary(Tail(entries), sid)

IndexTitle(sid, tp, idx) ==
  IF tp # <<>> /\ sid # <<>> /\ idx.kind = "ok"
    THEN IndexSummary(idx.entries, sid)
  ELSE <<>>

\* source 2: the last non-empty summary of the lines tagged summary
RECURSIVE ScanSummary(_, _)
ScanSummary(lines, title) ==
  IF lines = <<>> THEN title
  ELSE LET l == Head(lines) IN
       IF ~l.summaryTag \/ l.json = "bad" THEN ScanSummary(Tail(lines), title)
       ELSE IF l.summary # <<>> THEN ScanSummary(Tail(lines), l.summary)
       ELSE ScanSummary(Tail(lines), title)

\* source 3: the first line tagged user whose message content is a
\* non-empty string that does not start with < or [
RECURSIVE FirstUserMessage(_)
FirstUserMessage(lines) ==
  IF lines = <<>> THEN <<>>
  ELSE LET l == Head(lines)
           content == IF l.message.kind = "str" THEN l.message.content
                      ELSE <<>>
       IN
       IF ~l.userTag \/ l.json = "bad" THEN FirstUserMessage(Tail(lines))
       ELSE IF content = <<>> THEN FirstUserMessage(Tail(lines))
       ELSE IF Take(Strip(content), 1) \in {<<"<">>, <<"[">>}
         THEN FirstUserMessage(Tail(lines))
       ELSE TruncateTitle(content)

\* the guard of sources 2 and 3: not title and transcript_path and isfile
ScansTranscriptAlways(title, tp, tr) == tp # <<>> /\ tr.kind = "file"
ScansTranscript(title, tp, tr) ==
  title = <<>> /\ tp # <<>> /\ tr.kind = "file"

\* the guard of the final write_cache: if title
CachesTitleAlways(title) == TRUE
CachesTitle(title) == title # <<>>

\* extract_session_title(sid, tp) at time t on store fs.  The value is the
\* title, the store afterwards, the cache reads and writes, the title the
\* index gave (tier1) and how many times the transcript was opened (scans).
extract_session_title(fs, sid, tp, idx, tr, t) ==
  LET cp == cache_path(<<"t", "i", "t", "l", "e">>, sid)
      cached == read_cache(fs, cp, TitleTTL, t)
      t1 == IndexTitle(sid, tp, idx)
      s2 == ScansTranscript(t1, tp, tr)
      t2 == IF s2 THEN ScanSummary(tr.lines, t1) ELSE t1
      s3 == ScansTranscript(t2, tp, tr)
      t3 == IF s3 THEN FirstUserMessage(tr.lines) ELSE t2
  IN
  IF sid = <<>>
    THEN [result |-> <<>>, files |-> fs, cread |-> 0, cwrite |-> 0,
          hit |-> FALSE, tier1 |-> <<>>, scans |-> 0]
  ELSE IF cached.some
    THEN [result |-> cached.v, files |-> fs, cread |-> 1, cwrite |-> 0,
          hit |-> TRUE, tier1 |-> <<>>, scans |-> 0]
  ELSE [result |-> t3,
        files |-> IF CachesTitle(t3) THEN write_cache(fs, cp, t3, t) ELSE fs,
        cread |-> 1, cwrite |-> IF CachesTitle(t3) THEN 1 ELSE 0,
        hit |-> FALSE, tier1 |-> t1,
        scans |-> (IF s2 THEN 1 ELSE 0) + (IF s3 THEN 1 ELSE 0)]

(***************************************************************************)
(* SpecTitle: calls of extract_session_title while the index and the       *)
(* transcript change.                                                      *)
(***************************************************************************)
S1 == <<"s", "1">>
S2 == <<"s", "2">>
TranscriptPath == <<"/", "h", "/", "s", "1", ".", "j">>

IndexSamples ==
  { [kind |-> "absent", entries |-> <<>>],
    [kind |-> "garbage", entries |-> <<>>],
    [kind |-> "ok", entries |-> <<[sessionId |-> S2, summary |-> <<"Z">>]>>],
    [kind |-> "ok", entries |-> <<[sessionId |-> S2, summary |-> <<"Z">>],
                                  [sessionId |-> S1, summary |-> <<"A">>]>>],
    [kind |-> "ok", entries |-> <<[sessionId |-> S1, summary |-> <<>>]>>] }

NoMessage == [kind |-> "absent", content |-> <<>>]

SummaryLine(s) ==
  [summaryTag |-> TRUE, userTag |-> FALSE, json |-> "dict", summary |-> s,
   message |-> NoMessage]

UserLine(kind, content) ==
  [summaryTag |-> FALSE, userTag |-> TRUE, json |-> "dict", summary |-> <<>>,
   message |-> [kind |-> kind, content |-> content]]

BadLine ==
  [summaryTag |-> TRUE, userTag |-> TRUE, json |-> "bad", summary |-> <<>>,
   message |-> NoMessage]

OtherLine ==
  [summaryTag |-> FALSE, userTag |-> FALSE, json |-> "dict",
   summary |-> <<"N">>, message |-> [kind |-> "str", content |-> <<"n">>]]

\* 62 characters, 60 once trimmed, a line feed among the first 50
LongMessage ==
  <<SP>> \o Rep("x", 30) \o <<LF>> \o Rep("y", 19) \o Rep("z", 10) \o <<LF>>

TranscriptSamples ==
  { [kind |-> "absent", lines |-> <<>>],
    [kind |-> "file", lines |-> <<OtherLine>>],
    [kind |-> "file",
     lines |-> <<SummaryLine(<<"B">>), UserLine("str", <<"h", "i">>),
                 BadLine, SummaryLine(<<"C">>), SummaryLine(<<>>)>>],
    [kind |-> "file",
     lines |-> <<OtherLine, UserLine("blocks", <<>>),
                 UserLine("str", <<"<", "c", ">">>), BadLine,
                 UserLine("str", LongMessage), UserLine("str", <<"h", "i">>)>>],
    [kind |-> "file",
     lines |-> <<UserLine("str", <<SP, "h", "i", CR, LF>>),
                 UserLine("str", LongMessage)>>] }

\* the session id for which the latest call resolved the empty title, <<>>
\* when there is no such call: kept while the index and transcript change
EmptyFor ==
  IF last.op = "extract_session_title"
    THEN IF last.result = <<>> THEN last.sid ELSE <<>>
  ELSE last.emptyFor

InitTitle ==
  /\ now = 0
  /\ ticks = 0
  /\ files = <<>>
  /\ index \in IndexSamples
  /\ transcript \in TranscriptSamples
  /\ last = [op |-> "none", emptyFor |-> <<>>]
  /\ repo = <<>>
  /\ helper = FALSE
  /\ config = "absent"
  /\ override = None
  /\ prevGit = <<>>
  /\ writers = <<>>

\* the host rewrites the sessions index; last describes the latest call
\* only for as long as the files that call read are what they were
SetIndex(idx) ==
  /\ index # idx
  /\ index' = idx
  /\ last' = [op |-> "none", emptyFor |-> EmptyFor]
  /\ UNCHANGED <<now, ticks, files, repo, helper, transcript, config,
                 override, prevGit, writers>>

\* the host rewrites or appends to the transcript
SetTranscript(tr) ==
  /\ transcript # tr
  /\ transcript' = tr
  /\ last' = [op |-> "none", emptyFor |-> EmptyFor]
  /\ UNCHANGED <<now, ticks, files, repo, helper, index, config, override,
                 prevGit, writers>>

\* one call extract_session_title(sid, tp), which read index and transcript;
\* afterEmpty says that the call before it was for the same session id and
\* resolved the empty title
ExtractTitle(sid, tp) ==
  \E c \in {extract_session_title(files, sid, tp, index, transcript, now)} :
  /\ files' = c.files
  /\ last' = [op |-> "extract_session_title", sid |-> sid, tp |-> tp,
              result |-> c.result, hit |-> c.hit, tier1 |-> c.tier1,
              scans |-> c.scans, cread |-> c.cread, cwrite |-> c.cwrite,
              afterEmpty |-> sid # <<>> /\ EmptyFor = sid,
              entry |-> IF cache_path(<<"t", "i", "t", "l", "e">>, sid)
                             \in DOMAIN files
                          THEN Some(files[cache_path(<<"t", "i", "t", "l", "e">>,
                                                     sid)])
                        ELSE None]
  /\ UNCHANGED <<now, ticks, repo, helper, index, transcript, config,
                 override, prevGit, writers>>

NextTitle ==
  \/ \E d \in {1, TitleTTL - 1} : Tick(d)
  \/ \E idx \in IndexSamples : SetIndex(idx)
  \/ \E tr \in TranscriptSamples : SetTranscript(tr)
  \/ \E sid \in {<<>>, S1}, tp \in {<<>>, TranscriptPath} :
       ExtractTitle(sid, tp)

SpecTitle == InitTitle /\ [][NextTitle]_vars

(***************************************************************************)
(* Integers as text.                                                       *)
(***************************************************************************)
Digits == <<"0", "1", "2", "3", "4", "5", "6", "7", "8", "9">>

IsDigit(c) == \E i \in 1..10 : Digits[i] = c

DigitVal(c) == (CHOOSE i \in 1..10 : Digits[i] = c) - 1

\* str(n) for n >= 0
RECURSIVE NatStr(_)
NatStr(n) ==
  IF n < 10 THEN <<Digits[n + 1]>>
  ELSE NatStr(n \div 10) \o <<Digits[(n % 10) + 1]>>

\* str(n)
IntStr(n) == IF n < 0 THEN <<"-">> \o NatStr(0 - n) ELSE NatStr(n)

RECURSIVE DigitsVal(_, _)
DigitsVal(s, acc) ==
  IF s = <<>> THEN acc ELSE DigitsVal(Tail(s), 10 * acc + DigitVal(Head(s)))

\* int(s): Some(n), or None where Python raises ValueError
ParseInt(s) ==
  LET b == Strip(s)
      neg == b # <<>> /\ Head(b) = "-"
      d == IF b # <<>> /\ Head(b) \in {"-", "+"} THEN Tail(b) ELSE b
  IN
  IF d # <<>> /\ \A i \in 1..Len(d) : IsDigit(d[i])
    THEN Some(IF neg THEN 0 - DigitsVal(d, 0) ELSE DigitsVal(d, 0))
  ELSE None

(***************************************************************************)
(* Auto-compact settings.  config is the host's settings.json: "absent",   *)
(* "garbage" (not JSON), "false" (autoCompact is false) or "true"          *)
(* (autoCompact is true or not set).  override is the value of             *)
(* CLAUDE_AUTOCOMPACT_PCT_OVERRIDE, None when unset.                       *)
(***************************************************************************)
ConfigStates == {"absent", "garbage", "false", "true"}

SettingsPath ==
  TMPDIR \o <<"/">> \o <<"j", "a", "c", "q", "u", "e", "s", "-">>
    \o <<"s", "e", "t", "t", "i", "n", "g", "s">> \o CacheTail

TrueText == <<"t", "r", "u", "e">>
FalseText == <<"f", "a", "l", "s", "e">>
NullText == <<"n", "u", "l", "l">>

\* os.environ.get('CLAUDE_AUTOCOMPACT_PCT_OVERRIDE', '95')
EnvThresholdDefault90(ovr) == IF ovr.some THEN ovr.v ELSE <<"9", "0">>
EnvThreshold(ovr) == IF ovr.some THEN ovr.v ELSE <<"9", "5">>

\* ac is False, for the settings.json in state cfg
ConfigDisablesNever(cfg) == FALSE
ConfigDisables(cfg) == cfg = "false"

\* the compensating bug_threshold set when auto-compact is off
BugThreshold == 78

\* f"{enabled_str}|{threshold}|{bug_str}"
SettingsEntry(st) ==
  (IF st.enabled THEN TrueText ELSE FalseText) \o <<"|">>
    \o IntStr(st.threshold) \o <<"|">>
    \o (IF st.bug_threshold.some THEN IntStr(st.bug_threshold.v) ELSE NullText)

\* read_autocompact_settings() at time t on store fs.  raised names the
\* statement whose exception leaves the function ("" when it returns);
\* hit says that a fresh cache entry of three fields or more was used,
\* expired that a cache entry was there and too old.
read_autocompact_settings(fs, cfg, ovr, t) ==
  LET dflt == ParseInt(EnvThreshold(ovr))
      cached == read_cache(fs, SettingsPath, SettingsTTL, t)
      parts == IF cached.some THEN Split(cached.v, "|") ELSE <<>>
      hit == cached.some /\ Len(parts) >= 3
      cthr == ParseInt(parts[2])
      cbug == ParseInt(parts[3])
      off == cfg \notin {"absent", "garbage"} /\ ConfigDisables(cfg)
      st == [enabled |-> ~off, threshold |-> dflt.v,
             bug_threshold |-> IF off THEN Some(BugThreshold) ELSE None]
      none == [enabled |-> TRUE, threshold |-> 0, bug_threshold |-> None]
  IN
  IF ~dflt.some
    THEN [raised |-> "int(override)", result |-> none, files |-> fs,
          cread |-> 0, cwrite |-> 0, hit |-> FALSE, expired |-> FALSE]
  ELSE IF hit /\ parts[3] # NullText /\ ~cbug.some
    THEN [raised |-> "int(parts[2])", result |-> none, files |-> fs,
          cread |-> 1, cwrite |-> 0, hit |-> TRUE, expired |-> FALSE]
  ELSE IF hit
    THEN [raised |-> "",
          result |-> [enabled |-> parts[1] = TrueText,
                      threshold |-> IF cthr.some THEN cthr.v ELSE dflt.v,
                      bug_threshold |-> IF parts[3] # NullText
                                          THEN Some(cbug.v) ELSE None],
          files |-> fs, cread |-> 1, cwrite |-> 0, hit |-> TRUE,
          expired |-> FALSE]
  ELSE [raised |-> "", result |-> st,
        files |-> write_cache(fs, SettingsPath, SettingsEntry(st), t),
        cread |-> 1, cwrite |-> 1, hit |-> FALSE,
        expired |-> SettingsPath \in DOMAIN fs /\ ~cached.some]

(***************************************************************************)
(* SpecSettings: calls of read_autocompact_settings while settings.json    *)
(* and the override variable change between invocations.                   *)
(***************************************************************************)
OverrideSamples == {None, Some(<<"9", "0">>), Some(<<"a", "b", "c">>)}

InitSettings ==
  /\ now = 0
  /\ ticks = 0
  /\ files = <<>>
  /\ config \in ConfigStates
  /\ override \in OverrideSamples
  /\ last = [op |-> "none"]
  /\ repo = <<>>
  /\ helper = FALSE
  /\ index = <<>>
  /\ transcript = <<>>
  /\ prevGit = <<>>
  /\ writers = <<>>

\* settings.json is created, edited or removed
SetConfig(cfg) ==
  /\ config # cfg
  /\ config' = cfg
  /\ last' = [op |-> "none"]
  /\ UNCHANGED <<now, ticks, files, repo, helper, index, transcript, override,
                 prevGit, writers>>

\* the next invocation runs with another value of the override variable
SetOverride(ovr) ==
  /\ override # ovr
  /\ override' = ovr
  /\ last' = [op |-> "none"]
  /\ UNCHANGED <<now, ticks, files, repo, helper, index, transcript, config,
                 prevGit, writers>>

\* one call read_autocompact_settings(), which read config and override
ReadSettings ==
  \E c \in {read_autocompact_settings(files, config, override, now)} :
  /\ files' = c.files
  /\ last' = [op |-> "read_autocompact_settings", at |-> now,
              raised |-> c.raised, result |-> c.result, hit |-> c.hit,
              expired |-> c.expired, cread |-> c.cread, cwrite |-> c.cwrite]
  /\ UNCHANGED <<now, ticks, repo, helper, index, transcript, config,
                 override, prevGit, writers>>

NextSettings ==
  \/ \E d \in {1, SettingsTTL - 1} : Tick(d)
  \/ \E cfg \in ConfigStates : SetConfig(cfg)
  \/ \E ovr \in OverrideSamples : SetOverride(ovr)
  \/ ReadSettings

SpecSettings == InitSettings /\ [][NextSettings]_vars

(***************************************************************************)
(* SpecSettingsCache: calls of read_autocompact_settings on a settings     *)
(* cache file whose content this version of the script did not write (the  *)
(* file sits in the shared temp directory under a fixed name): well-formed *)
(* entries, entries with a field int() or the boolean test does not        *)
(* accept, entries of two and of four fields.                              *)
(***************************************************************************)
EntrySamples ==
  { TrueText \o <<"|", "8", "0", "|">> \o NullText,
    FalseText \o <<"|", "9", "5", "|", "7", "8">>,
    <<"y", "e", "s", "|", "8", "0", "|">> \o NullText,
    TrueText \o <<"|", "x", "|", "7", "8">>,
    FalseText \o <<"|">> \o NullText \o <<"|">> \o NullText,
    TrueText \o <<"|", "8", "0", "|", "x">>,
    TrueText \o <<"|", "8", "0", "|">>,
    TrueText \o <<"|", "8", "0">>,
    FalseText \o <<"|", "8", "0", "|", "7", "8", "|", "z">> }

InitSettingsCache ==
  /\ now = 0
  /\ ticks = 0
  /\ files = <<>>
  /\ config \in {"absent", "false"}
  /\ override \in {None, Some(<<"9", "0">>)}
  /\ last = [op |-> "none"]
  /\ repo = <<>>
  /\ helper = FALSE
  /\ index = <<>>
  /\ transcript = <<>>
  /\ prevGit = <<>>
  /\ writers = <<>>

\* the settings cache file is replaced by one holding text
PlantEntry(text) ==
  /\ files' = write_cache(files, SettingsPath, text, now)
  /\ last' = [op |-> "none"]
  /\ UNCHANGED <<now, ticks, repo, helper, index, transcript, config,
                 override, prevGit, writers>>

NextSettingsCache ==
  \/ \E d \in {1, SettingsTTL} : Tick(d)
  \/ \E text \in EntrySamples : PlantEntry(text)
  \/ ReadSettings

SpecSettingsCache == InitSettingsCache /\ [][NextSettingsCache]_vars

(***************************************************************************)
(* SpecRace: two invocations run read_autocompact_settings at the same     *)
(* time.  An invocation takes three steps: it reads the cache and, on a    *)
(* miss, resolves the settings; write_cache opens the file for writing,    *)
(* which creates or truncates it; write_cache writes the content and       *)
(* closes.  writers[p] is the position of invocation p and the content it  *)
(* is about to write.  settings.json changes between invocations.          *)
(***************************************************************************)
Procs == {1, 2}

Idle == [pc |-> "idle", content |-> <<>>]

\* the file after f.write(content) and close on a descriptor opened at
\* offset 0 without O_APPEND: the bytes written replace the first
\* Len(content) bytes, what lies beyond them stays
Overwrite(old, content) ==
  content \o SubSeq(old, Len(content) + 1, Len(old))

InitRace ==
  /\ now = 0
  /\ ticks = 0
  /\ files = <<>>
  /\ config \in {"absent", "false"}
  /\ override = None
  /\ last = [op |-> "none"]
  /\ repo = <<>>
  /\ helper = FALSE
  /\ index = <<>>
  /\ transcript = <<>>
  /\ prevGit = <<>>
  /\ writers = [p \in Procs |-> Idle]

\* lines 232-266 in invocation p: the cache is read (read is what
\* read_cache returned) and, on a miss, the settings are resolved
RaceResolve(p) ==
  /\ writers[p].pc = "idle"
  /\ \E c \in {read_autocompact_settings(files, config, override, now)} :
       /\ last' = [op |-> "read_autocompact_settings", at |-> now,
                   raised |-> c.raised, result |-> c.result, hit |-> c.hit,
                   read |-> read_cache(files, SettingsPath, SettingsTTL, now)]
       /\ writers' =
            [writers EXCEPT ![p] =
               IF c.raised = "" /\ ~c.hit
                 THEN [pc |-> "resolved", content |-> SettingsEntry(c.result)]
               ELSE Idle]
  /\ UNCHANGED <<now, ticks, files, repo, helper, index, transcript, config,
                 override, prevGit>>

\* line 58 in invocation p: open(path, 'w')
RaceOpen(p) ==
  /\ writers[p].pc = "resolved"
  /\ files' = write_cache(files, SettingsPath, <<>>, now)
  /\ writers' = [writers EXCEPT ![p].pc = "open"]
  /\ UNCHANGED <<now, ticks, repo, helper, index, transcript, config,
                 override, last, prevGit>>

\* line 59 and the end of the with block in invocation p
RaceWrite(p) ==
  /\ writers[p].pc = "open"
  /\ files' = write_cache(files, SettingsPath,
                          Overwrite(files[SettingsPath].content,
                                    writers[p].content), now)
  /\ writers' = [writers EXCEPT ![p] = Idle]
  /\ UNCHANGED <<now, ticks, repo, helper, index, transcript, config,
                 override, last, prevGit>>

NextRace ==
  \/ Tick(SettingsTTL + 1)
  \/ \E cfg \in {"absent", "false"} : SetConfig(cfg)
  \/ \E p \in Procs : RaceResolve(p)
  \/ \E p \in Procs : RaceOpen(p)
  \/ \E p \in Procs : RaceWrite(p)

SpecRace == InitRace /\ [][NextRace]_vars

(***************************************************************************)
(* JSON values, as json.load gives them: t is "null", "str", "num", "list" *)
(* or "obj"; s is the text of a string, n the value of a number or the     *)
(* length of a list, f the members of an object.  NotJson stands for a     *)
(* standard input json.load rejects.                                       *)
(***************************************************************************)
NoMembers == [k \in {} |-> 0]

JNull == [t |-> "null", s |-> <<>>, n |-> 0, f |-> NoMembers]
JStr(s) == [t |-> "str", s |-> s, n |-> 0, f |-> NoMembers]
JNum(n) == [t |-> "num", s |-> <<>>, n |-> n, f |-> NoMembers]
JList(n) == [t |-> "list", s |-> <<>>, n |-> n, f |-> NoMembers]
JObj(f) == [t |-> "obj", s |-> <<>>, n |-> 0, f |-> f]
NotJson == [t |-> "notjson", s |-> <<>>, n |-> 0, f |-> NoMembers]

\* bool(v)
Truthy(v) ==
  CASE v.t = "str" -> v.s # <<>>
    [] v.t = "num" -> v.n # 0
    [] v.t = "list" -> v.n # 0
    [] v.t = "obj" -> DOMAIN v.f # {}
    [] OTHER -> FALSE

\* d.get(key, default) for a dict d
Get(d, key, default) == IF key \in DOMAIN d.f THEN d.f[key] ELSE default

\* the text of a value that is a string, '' for a value that is falsy
TextOf(v) == IF v.t = "str" THEN v.s ELSE <<>>

(***************************************************************************)
(* send_to_server.  sock describes the channel path and with it the        *)
(* platform.  On a platform with Unix sockets: "absent" (no such path),    *)
(* "listening" (a server accepts and reads), "refusing" (the path exists,  *)
(* connect is refused), "timeout" (connect does not return within the      *)
(* second allowed), "broken" (the server accepts and closes, sendall       *)
(* raises part way).  On Windows: "pipe-absent" (the path names no pipe),  *)
(* "pipe-open" (a server reads the pipe), "pipe-busy" (every instance is   *)
(* taken, open raises), "pipe-broken" (the pipe closes under the write),   *)
(* "file-absent" (the path is configured to an ordinary file name that     *)
(* does not exist: open creates the file).                                 *)
(***************************************************************************)
UnixChannels == {"absent", "listening", "refusing", "timeout", "broken"}

PipeChannels ==
  {"pipe-absent", "pipe-open", "pipe-busy", "pipe-broken", "file-absent"}

SocketStates == UnixChannels \cup PipeChannels

\* platform.system() == 'Windows'
is_windows(sock) == sock \in PipeChannels

\* json.dumps accepts the payload: a payload with a member it rejects (a
\* bytes object, a set) is one that has the key blob
Encodable(payload) == "blob" \notin DOMAIN payload

\* json.dumps(payload).encode() + b'\n': the JSON text, then the line feed
Encode(payload) == <<[json |-> payload], LF>>

\* os.path.exists(socket_path)
PathExistsAlways(sock) == TRUE
PathExists(sock) == sock # "absent"

\* s.connect(socket_path), or open(socket_path, 'wb'), returns
Connects(sock) ==
  sock \in {"listening", "broken", "pipe-open", "pipe-broken", "file-absent"}

\* s.sendall(data), or pipe.write(data) and the close that flushes it,
\* returns
Completes(sock) == sock \in {"listening", "pipe-open", "file-absent"}

\* the bytes that reached the channel when the write ended
Handed(sock, data) == IF Completes(sock) THEN data ELSE Take(data, 1)

\* the try block (lines 313-326): raised says an exception leaves it
SendBody(payload, sock) ==
  LET data == Encode(payload)
      start == [delivered |-> FALSE, raised |-> FALSE, sockets |-> 0,
                connects |-> 0, handed |-> <<>>]
  IN
  IF ~Encodable(payload) THEN [start EXCEPT !.raised = TRUE]
  ELSE IF is_windows(sock)
    THEN IF ~Connects(sock)
           THEN [start EXCEPT !.raised = TRUE, !.connects = 1]
         ELSE [start EXCEPT !.raised = ~Completes(sock),
                            !.delivered = Completes(sock), !.connects = 1,
                            !.handed = Handed(sock, data)]
  ELSE IF ~PathExists(sock) THEN start
  ELSE IF ~Connects(sock)
    THEN [start EXCEPT !.raised = TRUE, !.sockets = 1, !.connects = 1]
  ELSE [start EXCEPT !.raised = ~Completes(sock),
                     !.delivered = Completes(sock), !.sockets = 1,
                     !.connects = 1, !.handed = Handed(sock, data)]

\* except Exception: return False
ExceptReraises(r) == r
Except(r) == [r EXCEPT !.delivered = FALSE, !.raised = FALSE]

send_to_server(payload, sock) ==
  LET r == SendBody(payload, sock) IN IF r.raised THEN Except(r) ELSE r

(***************************************************************************)
(* main().  skip is the skip condition that holds: "" for none,            *)
(* "JACQUES_SUBPROCESS", "JACQUES_SKIP" or "marker" (~/.jacques/skip is a  *)
(* file).  The value records the text written to standard output, the      *)
(* statement whose exception ends the run (raised, "" when main returns),  *)
(* the resolvers called, in order, the calls of send_to_server, the        *)
(* subprocesses started, the cache reads and writes, and the store; steps  *)
(* lists the calls of send_to_server and of sys.stdout.write in the order  *)
(* they are made, delivered is what send_to_server returned, git_branch   *)
(* and ac are the branch and the settings the resolvers gave.              *)
(***************************************************************************)
SkipConditions == {"", "JACQUES_SUBPROCESS", "JACQUES_SKIP", "marker"}

Placeholder == <<"c", "t", "x", ":", "?", "%">>

\* what repo says of directory d
RepoOf(rp, d) == IF d \in DOMAIN rp THEN rp[d] ELSE "missing"

\* the state of a run of main() that has written nothing and called nothing
Quiet(fs) ==
  [stdout |-> <<>>, raised |-> "", calls |-> <<>>, sends |-> 0,
   connects |-> 0, sub |-> 0, cread |-> 0, cwrite |-> 0, files |-> fs,
   steps |-> <<>>, delivered |-> FALSE, git_branch |-> <<>>,
   ac |-> [enabled |-> TRUE, threshold |-> 0, bug_threshold |-> None]]

\* f'[{model_display}] ctx:{used_int}%{git_part} [AC:{ac_part}]'
StatusLineNoThreshold(model_display, used_int, branch, ac) ==
  <<"[">> \o model_display \o <<"]", SP, "c", "t", "x", ":">>
    \o IntStr(used_int) \o <<"%">>
    \o (IF branch # <<>> THEN <<SP, "@">> \o branch ELSE <<>>)
    \o <<SP, "[", "A", "C", ":">>
    \o (IF ac.enabled THEN <<"O", "N">> ELSE <<"O", "F", "F">>)
    \o <<"]">>
StatusLine(model_display, used_int, branch, ac) ==
  <<"[">> \o model_display \o <<"]", SP, "c", "t", "x", ":">>
    \o IntStr(used_int) \o <<"%">>
    \o (IF branch # <<>> THEN <<SP, "@">> \o branch ELSE <<>>)
    \o <<SP, "[", "A", "C", ":">>
    \o (IF ac.enabled THEN <<"O", "N", "@">> \o IntStr(ac.threshold) \o <<"%">>
        ELSE <<"O", "F", "F">>)
    \o <<"]">>

\* int(used_pct) if used_pct else 0: Some(n), or None where int() raises
UsedInt(used_pct) ==
  IF ~Truthy(used_pct) THEN Some(0)
  ELSE IF used_pct.t = "num" THEN Some(used_pct.n)
  ELSE IF used_pct.t = "str" THEN ParseInt(used_pct.s)
  ELSE None

\* lines 358-433, for a standard input that is a non-empty JSON object with
\* a context_window that is a dict
MainResolve(fs, doc, ctx, rp, hlp, iout, idx, tr, cfg, ovr, sock, t) ==
  LET session_id == Get(doc, "session_id", JStr(<<>>))
      sid == TextOf(session_id)
      used_pct == Get(ctx, "used_percentage", JNum(0))
      model_data == Get(doc, "model", JObj(NoMembers))
      model_display ==
        IF model_data.t = "obj"
          THEN TextOf(Get(model_data, "display_name",
                          JStr(<<"U", "n", "k", "n", "o", "w", "n">>)))
        ELSE <<"U", "n", "k", "n", "o", "w", "n">>
      workspace == Get(doc, "workspace", JObj(NoMembers))
      incwd == TextOf(Get(doc, "cwd", JStr(<<>>)))
      wscwd == IF workspace.t = "obj"
                 THEN TextOf(Get(workspace, "current_dir", JStr(<<>>)))
               ELSE <<>>
      cwd == IF wscwd # <<>> THEN wscwd ELSE incwd
      project_dir == IF workspace.t = "obj"
                       THEN TextOf(Get(workspace, "project_dir", JStr(<<>>)))
                     ELSE <<>>
      transcript_path == TextOf(Get(doc, "transcript_path", JStr(<<>>)))
      git_dir == IF project_dir # <<>> THEN project_dir ELSE cwd
      g == IF git_dir # <<>>
             THEN detect_git_info(fs, git_dir, RepoOf(rp, git_dir), hlp,
                                  "exit", iout, t)
           ELSE [result |-> EmptyGit, files |-> fs, sub |-> 0, cread |-> 0,
                 cwrite |-> 0]
      ti == extract_session_title(g.files, sid, transcript_path, idx, tr, t)
      ac == read_autocompact_settings(ti.files, cfg, ovr, t)
      calls == (IF git_dir # <<>> THEN <<"detect_git_info">> ELSE <<>>)
                 \o <<"extract_session_title", "read_autocompact_settings">>
      sofar == [stdout |-> <<>>, raised |-> ac.raised, calls |-> calls,
                sends |-> 0, connects |-> 0, sub |-> g.sub,
                cread |-> g.cread + ti.cread + ac.cread,
                cwrite |-> g.cwrite + ti.cwrite + ac.cwrite,
                files |-> ac.files, steps |-> <<>>, delivered |-> FALSE,
                git_branch |-> g.result.git_branch, ac |-> ac.result]
      payload == [event |-> "context_update", session_id |-> sid,
                  model_display_name |-> model_display, cwd |-> cwd,
                  project_dir |-> project_dir, autocompact |-> ac.result,
                  session_title |-> ti.result,
                  transcript_path |-> transcript_path, git |-> g.result]
      sent == send_to_server(payload, sock)
      used_int == UsedInt(used_pct)
  IN
  IF ac.raised # "" THEN sofar
  ELSE IF ~Truthy(session_id)
    THEN [sofar EXCEPT !.stdout = Placeholder, !.steps = <<"write">>]
  ELSE IF sent.raised
    THEN [sofar EXCEPT !.sends = 1, !.connects = sent.connects,
                       !.steps = <<"send_to_server">>,
                       !.raised = "send_to_server"]
  ELSE IF ~used_int.some
    THEN [sofar EXCEPT !.sends = 1, !.connects = sent.connects,
                       !.delivered = sent.delivered,
                       !.steps = <<"send_to_server">>,
                       !.raised = "int(used_pct)"]
  ELSE [sofar EXCEPT !.sends = 1, !.connects = sent.connects,
                     !.delivered = sent.delivered,
                     !.steps = <<"send_to_server", "write">>,
                     !.stdout = StatusLine(model_display, used_int.v,
                                           g.result.git_branch, ac.result)]

\* lines 337-343: one of the environment flags is '1' or the marker is a file
SkipsOnFlagsOnly(skip) == skip \in {"JACQUES_SUBPROCESS", "JACQUES_SKIP"}
Skips(skip) == skip # ""

main(fs, skip, doc, rp, hlp, iout, idx, tr, cfg, ovr, sock, t) ==
  LET ctx == Get(doc, "context_window", JObj(NoMembers)) IN
  IF Skips(skip) THEN Quiet(fs)
  ELSE IF doc.t = "notjson" THEN Quiet(fs)
  ELSE IF ~Truthy(doc) THEN Quiet(fs)
  ELSE IF doc.t # "obj" THEN [Quiet(fs) EXCEPT !.raised = "input_data.get"]
  ELSE IF ctx.t # "obj" THEN [Quiet(fs) EXCEPT !.raised = "ctx.get"]
  ELSE MainResolve(fs, doc, ctx, rp, hlp, iout, idx, tr, cfg, ovr, sock, t)

(***************************************************************************)
(* SpecMain: invocations of main() on sample documents.                    *)
(***************************************************************************)
Foo == <<"F", "o", "o">>
ProjectDir == <<"/", "p", "/", "a">>

DocSamples ==
  << NotJson,
     JObj(NoMembers),
     JList(0),
     JList(1),
     JObj([cwd |-> JStr(ProjectDir)]),
     JObj([session_id |-> JStr(<<>>), model |-> JObj([display_name |-> JStr(Foo)])]),
     JObj([session_id |-> JStr(S1), context_window |-> JNull]),
     JObj([session_id |-> JStr(S1),
           context_window |-> JObj([used_percentage |-> JNum(42)]),
           model |-> JObj([display_name |-> JStr(Foo)])]),
     JObj([session_id |-> JStr(S1),
           context_window |-> JObj([used_percentage |-> JStr(<<"a">>)])]),
     JObj([session_id |-> JStr(S1), model |-> JStr(<<"m">>),
           workspace |-> JNull, cwd |-> JStr(ProjectDir),
           transcript_path |-> JStr(TranscriptPath)]),
     JObj([session_id |-> JStr(S2),
           context_window |-> JObj([used_percentage |-> JNum(7)]),
           model |-> JObj([display_name |-> JStr(<<"A", "b">>)]),
           workspace |-> JObj([project_dir |-> JStr(ProjectDir)])]) >>

\* the channels main() is run against: one that is absent, one that
\* takes the payload, one that fails
MainChannels == {"absent", "listening", "refusing"}

InitMain ==
  /\ now = 0
  /\ ticks = 0
  /\ files = <<>>
  /\ repo \in [GitDirs -> {"plain", "main"}]
  /\ helper = FALSE
  /\ index = [kind |-> "ok",
              entries |-> <<[sessionId |-> S1, summary |-> <<"A">>]>>]
  /\ transcript = [kind |-> "file", lines |-> <<SummaryLine(<<"B">>)>>]
  /\ config \in {"absent", "false"}
  /\ override = None
  /\ last = [op |-> "none"]
  /\ prevGit = <<>>
  /\ writers = <<>>

\* the documents a skipped run is given: one json.load rejects and the
\* full event
SkippedDocs == {1, 8}

\* the documents of DocSamples with a session id and a context_window that
\* is absent or a dict: the runs of main() that get as far as the send
SendingDocs == {8, 9, 10, 11}

\* the documents of DocSamples that name a directory: the runs of main()
\* that call detect_git_info on a non-empty path
GitDocs == {5, 10, 11}

\* one invocation of main() with document DocSamples[i] on standard input.
\* A run that does not get to look at the socket path or to start git (it
\* is skipped, or its document ends it earlier or names no directory) is
\* the same run whatever they are: only one value of each is drawn for it.
Main(i, skip, sock, iout) ==
  /\ skip # "" => (i \in SkippedDocs /\ sock = "absent" /\ iout = "exit")
  /\ i \notin SendingDocs => sock = "absent"
  /\ i \notin GitDocs => iout = "exit"
  /\ \E c \in {main(files, skip, DocSamples[i], repo, helper, iout, index,
                    transcript, config, override, sock, now)} :
       /\ files' = c.files
       /\ last' = [op |-> "main", doc |-> i, skip |-> skip,
                   stdout |-> c.stdout, raised |-> c.raised,
                   calls |-> c.calls, sends |-> c.sends,
                   connects |-> c.connects, sub |-> c.sub,
                   cread |-> c.cread, cwrite |-> c.cwrite,
                   steps |-> c.steps, delivered |-> c.delivered,
                   git_branch |-> c.git_branch, ac |-> c.ac]
  /\ UNCHANGED <<now, ticks, repo, helper, index, transcript, config,
                 override, prevGit, writers>>

NextMain ==
  \/ Tick(SettingsTTL + 1)
  \/ \E i \in 1..Len(DocSamples), skip \in SkipConditions,
        sock \in MainChannels, iout \in {"exit", "raise"} :
       Main(i, skip, sock, iout)

SpecMain == InitMain /\ [][NextMain]_vars

(***************************************************************************)
(* SpecSend: direct calls of send_to_server on sample payloads and every   *)
(* channel state, and invocations of main() that reach the send, on every  *)
(* channel state.                                                          *)
(***************************************************************************)
PayloadSamples ==
  [event : {"context_update"}, session_id : {S1, S2},
   used_percentage : {0, 42, 100}, session_title : {<<>>, <<"A">>}]
    \cup [event : {"context_update"}, session_id : {S1, S2},
          blob : {"bytes"}]

\* one call send_to_server(payload) against a channel in state sock
Send(payload, sock) ==
  \E c \in {send_to_server(payload, sock)} :
    /\ last' = [op |-> "send_to_server", payload |-> payload, sock |-> sock,
                delivered |-> c.delivered, raised |-> c.raised,
                sockets |-> c.sockets, connects |-> c.connects,
                handed |-> c.handed]
    /\ UNCHANGED <<now, ticks, files, repo, helper, index, transcript,
                   config, override, prevGit, writers>>

NextSend ==
  \/ \E payload \in PayloadSamples, sock \in SocketStates :
       Send(payload, sock)
  \/ \E i \in SendingDocs, sock \in SocketStates : Main(i, "", sock, "exit")

SpecSend == InitMain /\ [][NextSend]_vars

(***************************************************************************)
(* SpecStatus: invocations of main() on the events that carry a session    *)
(* id, a display name and an integer percentage, under every configuration *)
(* and override, in a directory that is or is not a repository.            *)
(***************************************************************************)
StatusDocs == {8, 11}

InitStatus ==
  /\ now = 0
  /\ ticks = 0
  /\ files = <<>>
  /\ repo \in [GitDirs -> {"missing", "plain", "main"}]
  /\ helper = FALSE
  /\ index = [kind |-> "absent", entries |-> <<>>]
  /\ transcript = [kind |-> "absent", lines |-> <<>>]
  /\ config \in {"absent", "false", "true"}
  /\ override \in {None, Some(<<"9", "0">>)}
  /\ last = [op |-> "none"]
  /\ prevGit = <<>>
  /\ writers = <<>>

NextStatus ==
  \/ Tick(SettingsTTL + 1)
  \/ \E ovr \in {None, Some(<<"9", "0">>)} : SetOverride(ovr)
  \/ \E i \in StatusDocs, sock \in MainChannels, iout \in {"exit", "raise"} :
       Main(i, "", sock, iout)

SpecStatus == InitStatus /\ [][NextStatus]_vars

\* the document the latest run of main() had on standard input
LastDoc == DocSamples[last.doc]

\* C1: main() with no skip condition and the document {} on standard input
\* writes exactly ctx:?% and never calls send_to_server.
C1_EmptyObjectPlaceholder ==
  (last.op = "main" /\ last.skip = "" /\ LastDoc.t = "obj"
   /\ DOMAIN LastDoc.f = {})
    => (last.stdout = Placeholder /\ last.sends = 0)

\* C2: when the parsed event has an absent or empty session_id, main()
\* writes the placeholder without having called any resolver: no
\* subprocess is started and no cache file is read or written.
C2_NoResolverWithoutSession ==
  (/\ last.op = "main" /\ last.skip = "" /\ LastDoc.t = "obj"
   /\ ~Truthy(Get(LastDoc, "session_id", JStr(<<>>)))
   /\ last.stdout = Placeholder)
    => /\ last.calls = <<>>
       /\ last.sub = 0
       /\ last.cread = 0
       /\ last.cwrite = 0

\* C3: for every document json.load accepts, main() ends without an
\* exception from a field access: absent, null and ill-typed fields take
\* their defaults.
C3_NoFieldAccessAborts ==
  (last.op = "main" /\ last.skip = "" /\ LastDoc.t # "notjson")
    => last.raised \notin {"input_data.get", "ctx.get", "int(used_pct)"}

\* C4: for every namespace, key, content and ttl >= 0, write_cache
\* immediately followed by read_cache of the same path returns the content
\* that was written.
C4_RoundTrip ==
  (last.op = "read_cache" /\ last.follows.some /\ last.follows.v.elapsed = 0)
    => last.result = Some(last.follows.v.content)

\* C5: an entry written at time T and not rewritten since is returned by
\* read_cache with max age ttl at every time up to and including T + ttl,
\* is reported absent at every later time, and the read leaves the entry
\* and its written-at time as they were.
C5_Expiry ==
  (last.op = "read_cache" /\ last.before.some) =>
    LET T == last.before.v.mtime IN
    /\ last.at <= T + last.ttl
         => last.result = Some(ReadText(last.before.v.content))
    /\ last.at > T + last.ttl => last.result = None
    /\ last.path \in DOMAIN files
    /\ files[last.path] = last.before.v

\* C5 witness: a read exactly ttl seconds after the write, ttl > 0, that
\* still returns the entry, whose written-at time is unchanged.
C5_Witness ==
  /\ last.op = "read_cache"
  /\ last.before.some
  /\ last.ttl = GitTTL
  /\ last.at = last.before.v.mtime + GitTTL
  /\ last.result.some
  /\ files[last.path].mtime = last.at - GitTTL

\* C6 as stated: for an existing directory, two calls of detect_git_info
\* less than GitTTL seconds apart return the same three fields, and the
\* second starts no subprocess.
C6_WithinWindowOfFirstCall ==
  (/\ last.op = "detect_git_info" /\ prevGit.op = "detect_git_info"
   /\ last.dir = prevGit.dir /\ last.exists /\ prevGit.exists
   /\ last.at - prevGit.at < GitTTL)
    => (last.result = prevGit.result /\ last.sub = 0)

\* C6 amended: for an existing directory, a call made no later than GitTTL
\* seconds after the directory's cache entry was written (the entry the
\* previous call wrote or read) returns the same three fields as the
\* previous call and starts no subprocess, whatever the repository has
\* become in between.
C6_WithinWindowOfEntry ==
  (/\ last.op = "detect_git_info" /\ prevGit.op = "detect_git_info"
   /\ last.dir = prevGit.dir /\ last.exists /\ prevGit.exists
   /\ prevGit.entryAt.some
   /\ last.at <= prevGit.entryAt.v + GitTTL)
    => (last.result = prevGit.result /\ last.sub = 0)

\* C6 witness: the second call is made later, on a repository that no
\* longer gives what the first call returned, and returns it all the same.
C6_Witness ==
  /\ last.op = "detect_git_info" /\ prevGit.op = "detect_git_info"
  /\ last.exists /\ prevGit.exists
  /\ prevGit.entryAt.some
  /\ last.at > prevGit.entryAt.v
  /\ last.at <= prevGit.entryAt.v + GitTTL
  /\ last.result.git_branch = <<"m">>
  /\ repo[last.dir] = "linked"
  /\ last.sub = 0

\* the entries of the index the latest call read that are for session sid
\* and have a non-empty summary
IndexHits(sid) ==
  IF index.kind = "ok"
    THEN {i \in DOMAIN index.entries :
            /\ index.entries[i].sessionId = sid
            /\ index.entries[i].summary # <<>>}
  ELSE {}

\* C7: with no fresh title cache entry, when the index has an entry for the
\* session with a non-empty summary A, extract_session_title returns A and
\* never opens the transcript; and whenever it opens the transcript, the
\* index gave an empty title.
C7_IndexWins ==
  (last.op = "extract_session_title" /\ ~last.hit) =>
    /\ (last.tp # <<>> /\ IndexHits(last.sid) # {}) =>
         /\ \E i \in IndexHits(last.sid) :
              last.result = index.entries[i].summary
         /\ last.scans = 0
    /\ last.scans > 0 => last.tier1 = <<>>

\* C7 witness: the index says A, the transcript holds summary records and
\* user messages, and the call returns A.
C7_Witness ==
  /\ last.op = "extract_session_title" /\ ~last.hit
  /\ last.tp # <<>> /\ IndexHits(last.sid) # {}
  /\ transcript.kind = "file"
  /\ \E j \in DOMAIN transcript.lines :
       transcript.lines[j].summaryTag /\ transcript.lines[j].summary = <<"C">>
  /\ \E j \in DOMAIN transcript.lines : transcript.lines[j].userTag
  /\ last.result = <<"A">>

\* line j of the transcript is a user message the third source accepts
Qualifies(j) ==
  LET l == transcript.lines[j] IN
  /\ l.userTag /\ l.json = "dict" /\ l.message.kind = "str"
  /\ l.message.content # <<>>
  /\ Take(Strip(l.message.content), 1) \notin {<<"<">>, <<"[">>}

\* the calls C8 is about: no fresh cache entry, no index entry for the
\* session, no summary record in the transcript, and line j the first
\* qualifying user message, longer than 50 characters once trimmed
C8_Case(j) ==
  /\ last.op = "extract_session_title" /\ ~last.hit
  /\ last.sid # <<>> /\ last.tp # <<>>
  /\ \/ index.kind # "ok"
     \/ \A i \in DOMAIN index.entries :
          index.entries[i].sessionId # last.sid
  /\ transcript.kind = "file"
  /\ \A k \in DOMAIN transcript.lines :
       ~(transcript.lines[k].summaryTag /\ transcript.lines[k].json = "dict")
  /\ j \in DOMAIN transcript.lines
  /\ Qualifies(j)
  /\ \A k \in 1..(j - 1) : ~Qualifies(k)
  /\ Len(Strip(transcript.lines[j].message.content)) > 50

\* C8 as stated: the title is the first 53 characters of the trimmed
\* message followed by the ellipsis marker.
C8_First53ThenEllipsis ==
  \A j \in 1..Len(transcript.lines) :
    C8_Case(j) =>
      last.result =
        Take(Strip(transcript.lines[j].message.content), 53) \o Ellipsis

\* C8 amended: the title is the first 50 characters of the trimmed message,
\* each line feed replaced by a space, followed by the three-character
\* marker "...": 53 characters in all.
C8_First50ThenEllipsis ==
  \A j \in 1..Len(transcript.lines) :
    C8_Case(j) =>
      /\ last.result =
           Take(Replace(Strip(transcript.lines[j].message.content), LF, SP), 50)
             \o Ellipsis
      /\ Len(last.result) = 53

\* C8 witness: the long message is the first qualifying one, after lines
\* the third source skips, and the title ends in the marker.
C8_Witness ==
  \E j \in 2..Len(transcript.lines) :
    /\ C8_Case(j)
    /\ SubSeq(last.result, 51, 53) = Ellipsis
    /\ last.result[31] = SP

DefaultSettings == [enabled |-> TRUE, threshold |-> 95, bug_threshold |-> None]

\* C9 as stated: whenever read_autocompact_settings runs with no
\* settings.json and no override, whatever ran before, it returns
\* enabled=true, threshold=95 and no bug_threshold.
C9_DefaultsAlways ==
  (last.op = "read_autocompact_settings" /\ config = "absent"
   /\ ~override.some)
    => (last.raised = "" /\ last.result = DefaultSettings)

\* C9 amended: whenever read_autocompact_settings runs with no
\* settings.json, no override and no settings cache entry written in the
\* last SettingsTTL seconds, it returns enabled=true, threshold=95 and no
\* bug_threshold, and caches that triple.
C9_DefaultsWhenNotCached ==
  (last.op = "read_autocompact_settings" /\ config = "absent"
   /\ ~override.some /\ ~last.hit)
    => /\ last.raised = ""
       /\ last.result = DefaultSettings
       /\ files[SettingsPath].content
            = TrueText \o <<"|", "9", "5", "|">> \o NullText

\* C9 witness: an earlier invocation cached something, the entry has
\* expired, and this call resolves the defaults again.
C9_Witness ==
  /\ last.op = "read_autocompact_settings"
  /\ config = "absent" /\ ~override.some
  /\ ~last.hit /\ last.expired
  /\ last.result = DefaultSettings

C11_UnparsableOverrideDefaults ==
  (last.op = "read_autocompact_settings" /\ override.some
   /\ ~ParseInt(override.v).some /\ ~last.hit)
    => (last.raised = "" /\ last.result.threshold = 95)

\* the fields of the settings cache entry as read_cache returns it
EntryFields == Split(ReadText(files[SettingsPath].content), "|")

\* C12: when read_autocompact_settings uses a fresh settings cache entry of
\* three fields, it returns; a first field that is neither true nor false
\* gives enabled=true, a second field that is not an integer gives the
\* default threshold, a third field that is neither an integer nor null
\* gives no bug_threshold, and every field that parses gives its value.
C12_FieldDefaults ==
  (last.op = "read_autocompact_settings" /\ last.hit
   /\ Len(EntryFields) = 3)
    => /\ last.raised = ""
       /\ last.result.enabled = (EntryFields[1] # FalseText)
       /\ last.result.threshold =
            IF ParseInt(EntryFields[2]).some THEN ParseInt(EntryFields[2]).v
            ELSE ParseInt(EnvThreshold(override)).v
       /\ last.result.bug_threshold =
            IF ParseInt(EntryFields[3]).some
              THEN Some(ParseInt(EntryFields[3]).v)
            ELSE None

LastUsedPct ==
  Get(Get(LastDoc, "context_window", JObj(NoMembers)), "used_percentage",
      JNum(0))

\* C14: send_to_server returns a boolean and never raises, whatever the
\* payload and the channel; it returns True only when the whole payload and
\* its line feed reached the channel; it makes at most one connection
\* attempt.  A run of main() that reaches the send calls it once, no
\* exception of it ends the run, and the status line is written after it
\* whether it returned True or False.
C14_SendNeverRaises ==
  /\ last.op = "send_to_server" =>
       /\ ~last.raised
       /\ last.delivered \in BOOLEAN
       /\ last.delivered => last.handed = Encode(last.payload)
       /\ last.connects <= 1
       /\ last.sockets <= 1
  /\ (last.op = "main" /\ last.sends > 0) =>
       /\ last.sends = 1
       /\ last.connects <= 1
       /\ last.raised # "send_to_server"
       /\ UsedInt(LastUsedPct).some =>
            /\ last.raised = ""
            /\ last.steps = <<"send_to_server", "write">>
            /\ SubSeq(last.stdout, 1, 1) = <<"[">>

\* C14 witness: a run of main() whose connection was refused and that wrote
\* the status line all the same.
C14_Witness ==
  /\ last.op = "main"
  /\ last.sends = 1
  /\ last.connects = 1
  /\ ~last.delivered
  /\ last.steps = <<"send_to_server", "write">>
  /\ last.stdout # <<>>

\* C15: a run of main() under any of the three skip conditions, whatever is
\* on standard input, writes nothing, calls no resolver, reads and writes
\* no cache file, starts no subprocess and does not call send_to_server.
C15_SkipIsQuiet ==
  (last.op = "main" /\ last.skip \in SkipConditions \ {""})
    => /\ last.stdout = <<>>
       /\ last.raised = ""
       /\ last.calls = <<>>
       /\ last.steps = <<>>
       /\ last.sends = 0 /\ last.connects = 0
       /\ last.sub = 0
       /\ last.cread = 0 /\ last.cwrite = 0

\* C15 witness: the marker file exists, the full event is on standard
\* input, nothing was written and the cache directory is still empty.
C15_Witness ==
  /\ last.op = "main"
  /\ last.skip = "marker"
  /\ LastDoc.t = "obj"
  /\ Truthy(Get(LastDoc, "session_id", JStr(<<>>)))
  /\ last.stdout = <<>>
  /\ files = <<>>

\* the events C16 is about: a non-empty session id, a model with a display
\* name, a context_window with an integer used_percentage
C16_Event ==
  /\ last.op = "main" /\ last.skip = ""
  /\ LastDoc.t = "obj"
  /\ Get(LastDoc, "session_id", JStr(<<>>)).t = "str"
  /\ Get(LastDoc, "session_id", JStr(<<>>)).s # <<>>
  /\ Get(LastDoc, "model", JNull).t = "obj"
  /\ Get(Get(LastDoc, "model", JNull), "display_name", JNull).t = "str"
  /\ Get(LastDoc, "context_window", JNull).t = "obj"
  /\ LastUsedPct.t = "num"

\* C16: for such an event, when the git resolver gave no branch and the
\* settings resolver gave enabled with threshold t, main() calls
\* send_to_server once, then writes once, and what it wrote is exactly
\* [M] ctx:p% [AC:ON@t%], whatever the send returned.
C16_StatusLine ==
  (C16_Event /\ last.git_branch = <<>> /\ last.ac.enabled)
    => /\ last.raised = ""
       /\ last.sends = 1
       /\ last.steps = <<"send_to_server", "write">>
       /\ last.stdout =
            <<"[">> \o Get(LastDoc.f.model, "display_name", JNull).s
              \o <<"]", SP, "c", "t", "x", ":">> \o IntStr(LastUsedPct.n)
              \o <<"%", SP, "[", "A", "C", ":", "O", "N", "@">>
              \o IntStr(last.ac.threshold) \o <<"%", "]">>

\* C16 witness: the event names a directory that is not a repository, the
\* settings came from the cache entry of an invocation that had the
\* override at 90, the send was not delivered, and the line was written.
C16_Witness ==
  /\ C16_Event
  /\ last.doc \in GitDocs
  /\ last.sub > 0
  /\ last.git_branch = <<>>
  /\ last.ac.enabled /\ last.ac.threshold = 90
  /\ ~override.some
  /\ ~last.delivered
  /\ last.stdout # <<>>

\* the cache file of the directory of the latest detect_git_info call
LastGitPath == cache_path(<<"g", "i", "t">>, last.dir)

\* C17: a call of detect_git_info on an existing directory with no fresh
\* cache entry leaves in the directory's cache entry, written at the time
\* of the call, the three fields it returns, empty or not; a call made no
\* later than GitTTL seconds after an all-empty result was cached starts no
\* subprocess; a call on a directory that does not exist returns the empty
\* result and neither reads nor writes the cache.
C17_WriteBackAlways ==
  last.op = "detect_git_info" =>
    /\ (last.exists /\ ~last.fresh) =>
         /\ last.cwrite = 1
         /\ LastGitPath \in DOMAIN files
         /\ files[LastGitPath] =
              [content |-> GitEntry(last.result), mtime |-> last.at]
    /\ (/\ prevGit.op = "detect_git_info" /\ prevGit.dir = last.dir
        /\ prevGit.exists /\ last.exists
        /\ prevGit.result = EmptyGit /\ prevGit.entryAt.some
        /\ last.at <= prevGit.entryAt.v + GitTTL)
         => (last.sub = 0 /\ last.result = EmptyGit)
    /\ ~last.exists =>
         /\ last.result = EmptyGit
         /\ last.cread = 0 /\ last.cwrite = 0 /\ last.sub = 0

\* C17 witness: a resolution that failed and cached three empty fields,
\* and a call GitTTL seconds later, in what is by then a repository, that
\* starts no subprocess.
C17_Witness ==
  /\ last.op = "detect_git_info" /\ prevGit.op = "detect_git_info"
  /\ prevGit.exists /\ ~prevGit.fresh
  /\ prevGit.result = EmptyGit
  /\ last.exists
  /\ last.at = prevGit.at + GitTTL
  /\ repo[last.dir] = "main"
  /\ last.sub = 0
  /\ last.result = EmptyGit

\* the title cache file of the session of the latest call
LastTitlePath == cache_path(<<"t", "i", "t", "l", "e">>, last.sid)

\* C18: a call of extract_session_title that returns the empty title has
\* written nothing and leaves the session's cache entry as it was; the call
\* that follows it for the same session id is not served from the cache
\* and returns the index title if there is one by then; a call with an
\* empty session id returns the empty title and neither reads nor writes
\* the cache; and the cache is written exactly when a title was resolved.
C18_EmptyTitleNotCached ==
  last.op = "extract_session_title" =>
    /\ last.result = <<>> =>
         /\ last.cwrite = 0
         /\ last.entry.some => /\ LastTitlePath \in DOMAIN files
                                /\ files[LastTitlePath] = last.entry.v
         /\ ~last.entry.some => LastTitlePath \notin DOMAIN files
    /\ last.afterEmpty =>
         /\ ~last.hit
         /\ last.cread = 1
         /\ (last.tp # <<>> /\ IndexHits(last.sid) # {}) =>
              \E i \in IndexHits(last.sid) :
                last.result = index.entries[i].summary
    /\ last.sid = <<>> =>
         /\ last.result = <<>>
         /\ last.cread = 0 /\ last.cwrite = 0
    /\ (last.sid # <<>> /\ ~last.hit) =>
         (last.cwrite = 1 <=> last.result # <<>>)

\* C18 witness: a call resolved the empty title, the index then got an
\* entry for the session, and the next call returns its title.
C18_Witness ==
  /\ last.op = "extract_session_title"
  /\ last.afterEmpty
  /\ ~last.hit
  /\ last.result = <<"A">>
  /\ last.cwrite = 1

\* the settings an invocation of SpecRace can resolve
RaceSettings ==
  { [enabled |-> ~off, threshold |-> 95,
     bug_threshold |-> IF off THEN Some(BugThreshold) ELSE None] :
      off \in BOOLEAN }

\* C19: with invocations interleaved, what read_cache returns is absent or
\* the whole content one write_cache call was given, never an empty or
\* mixed content; and read_autocompact_settings returns, with settings
\* that some invocation resolved.
C19_ReadsWholeWrites ==
  last.op = "read_autocompact_settings" =>
    /\ last.read.some =>
         \E st \in RaceSettings : last.read.v = ReadText(SettingsEntry(st))
    /\ last.raised = ""
    /\ last.result \in RaceSettings

\* C20: what detect_git_info returns for a directory was resolved for that
\* directory: with the directories unchanged, it is what git says of the
\* directory asked about, whatever other directories were resolved before.
C20_KeysDoNotInteract ==
  last.op = "detect_git_info" =>
    last.result = InlineResult(last.dir, GitRevParse(repo[last.dir]))

====
